---- MODULE Spec2Model ----
(***************************************************************************)
(* The command-execution engine of pipr (src/src/command_evaluation.rs):   *)
(* the UI thread (execute, stop), the Dispatcher thread started by         *)
(* CommandExecutionHandler::start, one Watcher thread per spawned child    *)
(* (wait_for_child_and_send_output) and the child processes themselves.    *)
(*                                                                         *)
(* Threads interleave at their shared accesses: the three channels, the    *)
(* already_killed flag of a handle (a load and a store are two steps) and  *)
(* the operating system's process table (spawn, kill, wait).               *)
(*                                                                         *)
(* Requests carry no identity in the code; the model numbers them in       *)
(* arrival order (1, 2, ...) and tags processes, handles and outcomes with *)
(* that number so that properties can speak about "the same request".      *)
(* Command texts are sequences of one-character strings.                   *)
(*                                                                         *)
(* Taken from the environment: the handler is not dropped while the engine *)
(* runs (the outcome receiver stays alive, so a send on it succeeds); the  *)
(* stdin lines fit the pipe, so write_stdin_to_child returns; reading a    *)
(* reaped child's pipes ends. A child may run for ever, a spawn may fail,  *)
(* and wait_timeout may return an error.                                   *)
(***************************************************************************)
EXTENDS Integers, Sequences, FiniteSets, TLC

\* Bounds of the model.
MaxReq == 2        \* execute() calls
MaxStop == 2       \* stop signals waiting in the stop channel

Reqs == 1..MaxReq

\* ------------------------------------------------------------ constants
UNSAFE_COMMANDS == << <<"r", "m", " ">>, <<"m", "v", " ">>, <<"d", "d", " ">> >>
UNSAFE_CMD_ERR == "Will not run this command, it's for your own good. Believe me."
SPAWN_ERR == "Unable to spawn command"
SHELL_EMPTY_ERR == "shell_command is empty"
TIMEOUT_MSG == "Command timed out"
WAIT_ERR == "<io error of wait_timeout>"
STDOUT_TEXT == "<stdout lines>"
STDERR_TEXT == "<stderr lines>"

\* The command texts the UI submits: "ls", "rm x", "add 1" (contains "dd "),
\* "mv a" and "rm" (no blank after it, so not on the blocklist).
Commands ==
    { <<"l", "s">>,
      <<"r", "m", " ", "x">>,
      <<"a", "d", "d", " ", "1">>,
      <<"m", "v", " ", "a">>,
      <<"r", "m">> }

\* The shell prefixes an engine is constructed with.
ShellPrefixes == { <<>>, <<"sh", "-c">> }

ExecutionMode == {"Unsafe", "Isolated"}

\* ------------------------------------------------------------ pure parts

\* str::contains: sub occurs in s at some position.
Contains(s, sub) ==
    \E i \in 1..(Len(s) - Len(sub) + 1) : SubSeq(s, i, i + Len(sub) - 1) = sub

\* Mutant of is_unsafe_command: only the first entry of the list is looked for.
is_unsafe_command_first_only(cmd) ==
    Contains(cmd, UNSAFE_COMMANDS[1])

is_unsafe_command(cmd) ==
    \E k \in 1..Len(UNSAFE_COMMANDS) : Contains(cmd, UNSAFE_COMMANDS[k])

\* Mutant of spawn_command: the shell prefix is looked at first, in either
\* mode.
spawn_command_shell_first(shell, cmd, mode, osOk) ==
    IF shell = <<>> THEN [ok |-> FALSE, err |-> SHELL_EMPTY_ERR]
    ELSE IF mode = "Unsafe" /\ is_unsafe_command(cmd) THEN [ok |-> FALSE, err |-> UNSAFE_CMD_ERR]
    ELSE IF osOk THEN [ok |-> TRUE, err |-> ""]
    ELSE [ok |-> FALSE, err |-> SPAWN_ERR]

\* spawn_command: the policy check, then the OS's spawn, which succeeds or not
\* (osOk: bwrap or the shell is found and the process can be created).
spawn_command(shell, cmd, mode, osOk) ==
    IF mode = "Isolated"
    THEN IF osOk THEN [ok |-> TRUE, err |-> ""] ELSE [ok |-> FALSE, err |-> SPAWN_ERR]
    ELSE IF is_unsafe_command(cmd) THEN [ok |-> FALSE, err |-> UNSAFE_CMD_ERR]
    ELSE IF shell = <<>> THEN [ok |-> FALSE, err |-> SHELL_EMPTY_ERR]
    ELSE IF osOk THEN [ok |-> TRUE, err |-> ""]
    ELSE [ok |-> FALSE, err |-> SPAWN_ERR]

\* CmdOutput, tagged with the request it is for.
CmdOk(r, text) == [req |-> r, ok |-> TRUE, text |-> text]
CmdNotOk(r, text) == [req |-> r, ok |-> FALSE, text |-> text]

\* ------------------------------------------------------------ strings
\* A string is the sequence of its bytes, each written as a one-character
\* string; INVALID is a byte that is not valid UTF-8.

INVALID == "?"

\* e.to_string() of the io::Error that lines() gives for invalid UTF-8.
UTF8_ERR == << "invalid utf-8" >>

\* The byte offset (from 0) of the first occurrence of pat in str, or -1.
find(str, pat) ==
    LET hits == { i \in 0..(Len(str) - Len(pat)) : SubSeq(str, i + 1, i + Len(pat)) = pat }
    IN IF hits = {} THEN -1 ELSE CHOOSE i \in hits : \A j \in hits : i <= j

\* The byte offset (from 0) of the last occurrence of pat in str, or -1.
rfind(str, pat) ==
    LET hits == { i \in 0..(Len(str) - Len(pat)) : SubSeq(str, i + 1, i + Len(pat)) = pat }
    IN IF hits = {} THEN -1 ELSE CHOOSE i \in hits : \A j \in hits : i >= j

\* str::replace(str, pat, ""): the matches of pat, found from the left and
\* not overlapping, are taken out.
RECURSIVE remove_all(_, _)
remove_all(str, pat) ==
    LET i == find(str, pat)
    IN IF i = -1 THEN str
       ELSE SubSeq(str, 1, i) \o remove_all(SubSeq(str, i + Len(pat) + 1, Len(str)), pat)

\* One line of lines(): the bytes before the "\n", less a "\r" at their end.
strip_cr(line) ==
    IF line # <<>> /\ line[Len(line)] = "\r" THEN SubSeq(line, 1, Len(line) - 1) ELSE line

\* BufRead::lines and str::lines: the text is cut after each "\n"; a last line
\* without "\n" is a line too (and keeps a "\r" at its end); the empty text
\* has no line.
RECURSIVE lines(_)
lines(text) ==
    IF text = <<>> THEN <<>>
    ELSE LET i == find(text, << "\n" >>)
         IN IF i = -1 THEN << text >>
            ELSE << strip_cr(SubSeq(text, 1, i)) >> \o lines(SubSeq(text, i + 2, Len(text)))

\* [String]::join(sep)
RECURSIVE join(_, _)
join(strs, sep) ==
    IF strs = <<>> THEN <<>>
    ELSE IF Len(strs) = 1 THEN strs[1]
    ELSE strs[1] \o sep \o join(Tail(strs), sep)

\* read_lines_to_string: the stream's lines, joined by "\n", and a "\n" after
\* them; the error's text when a line is not valid UTF-8.
read_lines_to_string(stream) ==
    IF \E i \in 1..Len(stream) : stream[i] = INVALID
    THEN UTF8_ERR
    ELSE join(lines(stream), << "\n" >>) \o << "\n" >>

\* The strings of at most n bytes from the set bytes.
StringsOver(bytes, n) == UNION { [1..k -> bytes] : k \in 0..n }

\* ------------------------------------------------------------ snippets

MARKER == << "|", "|" >>

\* Mutant of parse: the cursor is put at the last marker.
parse_at_last_marker(s) ==
    [text |-> remove_all(s, MARKER),
     cursor_offset |-> IF rfind(s, MARKER) = -1 THEN Len(s) ELSE rfind(s, MARKER)]

\* Snippet::parse
parse(s) ==
    [text |-> remove_all(s, MARKER),
     cursor_offset |-> IF find(s, MARKER) = -1 THEN Len(s) ELSE find(s, MARKER)]

\* ------------------------------------------------------------ command lists
\* A CommandEntry is the sequence of its lines, a CommandList the record of
\* its entries and its max_size; the list's file is always Some(path).

SERIALIZATION_ENTRY_SEPERATOR == << "-", "-", "-" >>

\* CommandEntry::as_string
as_string(entry) == join(entry, << "\n" >>)

\* Vec::contains, Iterator::position (from 1; 0 for None), Vec::remove
contains(entries, entry) == \E i \in 1..Len(entries) : entries[i] = entry

position(entries, entry) ==
    IF contains(entries, entry)
    THEN CHOOSE i \in 1..Len(entries) :
            entries[i] = entry /\ \A j \in 1..(i - 1) : entries[j] # entry
    ELSE 0

remove(entries, i) == SubSeq(entries, 1, i - 1) \o SubSeq(entries, i + 1, Len(entries))

\* The condition of push: the command is added, and the file written.
push_accepts(l, command) ==
    /\ as_string(command) # <<>>
    /\ l.entries = <<>> \/ l.entries[Len(l.entries)] # command

\* Mutant of push: nothing is evicted.
push_never_evicts(l, command) ==
    IF push_accepts(l, command)
    THEN [l EXCEPT !.entries = Append(l.entries, command)]
    ELSE l

\* CommandList::push
push(l, command) ==
    IF push_accepts(l, command)
    THEN LET pushed == Append(l.entries, command)
         IN IF l.max_size.some /\ Len(pushed) > l.max_size.n
            THEN [l EXCEPT !.entries = remove(pushed, 1)]
            ELSE [l EXCEPT !.entries = pushed]
    ELSE l

\* CommandList::remove_entry
remove_entry(l, entry) ==
    IF position(l.entries, entry) # 0
    THEN [l EXCEPT !.entries = remove(l.entries, position(l.entries, entry))]
    ELSE l

\* CommandList::toggle_entry
toggle_entry(l, entry) ==
    IF entry # <<>>
    THEN IF contains(l.entries, entry) THEN remove_entry(l, entry) ELSE push(l, entry)
    ELSE l

\* CommandList::serialize
serialize(l) ==
    join([i \in 1..Len(l.entries) |-> as_string(l.entries[i])],
         << "\n" >> \o SERIALIZATION_ENTRY_SEPERATOR \o << "\n" >>)

\* The loop of deserialize over the lines left, with current_entry and the
\* list so far; f is the file, which every accepted push writes.
RECURSIVE deserialize_loop(_, _, _, _)
deserialize_loop(ls, current_entry, l, f) ==
    IF ls = <<>>
    THEN IF current_entry # <<>>
         THEN [list |-> push(l, current_entry),
               file |-> IF push_accepts(l, current_entry)
                        THEN serialize(push(l, current_entry)) ELSE f]
         ELSE [list |-> l, file |-> f]
    ELSE IF Head(ls) = SERIALIZATION_ENTRY_SEPERATOR
    THEN deserialize_loop(Tail(ls), <<>>, push(l, current_entry),
                          IF push_accepts(l, current_entry)
                          THEN serialize(push(l, current_entry)) ELSE f)
    ELSE deserialize_loop(Tail(ls), Append(current_entry, Head(ls)), l, f)

\* CommandList::deserialize(Some(path), max_size, text), the file holding f:
\* the list made and what the file holds afterwards.
deserialize(max_size, text, f) ==
    LET made == deserialize_loop(SelectSeq(lines(text), LAMBDA x : x # <<>>), <<>>,
                                 [entries |-> <<>>, max_size |-> max_size], f)
        n == Len(made.list.entries)
    IN IF max_size.some /\ n > max_size.n
       THEN [made EXCEPT !.list.entries = SubSeq(made.list.entries, n - max_size.n + 1, n)]
       ELSE made

\* ------------------------------------------------------------ state
VARIABLES
    execution_mode,   \* fixed at start()
    shell_command,    \* fixed at start()
    ui,               \* the UI thread: "live", or the call whose unwrap() panicked
    submitted,        \* number of execute() calls so far
    cmd_in,           \* the request channel: records [id, command]
    stop_chan,        \* the stop channel: number of () messages in it
    cmd_out,          \* the outcome channel: CmdOutput records
    dpc,              \* where the Dispatcher thread is
    cur,              \* the request the Dispatcher is handling (0: the stop signal)
    old,              \* old_command / handle: the handle kill() is running on (0: none)
    active_command,   \* Option<BackgroundChildHandle>: a request number, 0 for None
    handed,           \* the requests handed to spawn_command so far
    proc,             \* each request's child process
    already_killed,   \* each handle's flag
    wpc,              \* where each request's Watcher thread is
    status,           \* what wait_timeout returned to each Watcher, while it holds it
    signals,          \* SIGKILLs sent to each request's pid
    pipes,            \* a finished child: what it wrote to stdout and stderr, its exit status
    sent,             \* what the Watcher of that child sent on finished_channel
    snippet_src,      \* the string given to Snippet::parse
    snippet,          \* the Snippets parsed from it
    list,             \* a CommandList: its entries and max_size
    file,             \* the text in the CommandList's file
    call              \* the last call on the CommandList: its name, its argument and
                      \* the entries before it

vars == << execution_mode, shell_command, ui, submitted, cmd_in, stop_chan,
           cmd_out, dpc, cur, old, active_command, handed, proc, already_killed, wpc,
           status, signals, pipes, sent, snippet_src, snippet, list, file, call >>

config == << execution_mode, shell_command >>
uivars == << ui, submitted >>
dispvars == << dpc, cur, old, active_command >>
watchvars == << wpc, status >>
osvars == << proc, signals >>
enginevars == << config, uivars, cmd_in, stop_chan, cmd_out, dispvars, handed, osvars,
                 already_killed, watchvars >>
readvars == << pipes, sent >>
snipvars == << snippet_src, snippet >>
listvars == << list, file, call >>
libvars == << readvars, snipvars, listvars >>

\* Option<usize>
None == [some |-> FALSE, n |-> 0]
Some(k) == [some |-> TRUE, n |-> k]

\* No child output is being reported, no snippet parsed, no list in use.
ReadIdle ==
    /\ pipes = [stdout |-> <<>>, stderr |-> <<>>, success |-> TRUE]
    /\ sent = <<>>

SnipIdle ==
    /\ snippet_src = <<>>
    /\ snippet = <<>>

ListIdle ==
    /\ list = [entries |-> <<>>, max_size |-> None]
    /\ file = <<>>
    /\ call = [fn |-> "new", entry |-> <<>>, before |-> <<>>]

EngineInit ==
    /\ execution_mode \in ExecutionMode
    /\ shell_command \in ShellPrefixes
    /\ ui = "live"
    /\ submitted = 0
    /\ cmd_in = <<>>
    /\ stop_chan = 0
    /\ cmd_out = <<>>
    /\ dpc = "select"
    /\ cur = 0
    /\ old = 0
    /\ active_command = 0
    /\ handed = {}
    /\ proc = [r \in Reqs |-> "none"]
    /\ already_killed = [r \in Reqs |-> FALSE]
    /\ wpc = [r \in Reqs |-> "none"]
    /\ status = [r \in Reqs |-> "-"]
    /\ signals = [r \in Reqs |-> 0]

\* The engine after start(), with nothing else in use.
Init == EngineInit /\ ReadIdle /\ SnipIdle /\ ListIdle

\* The engine left alone after start(), in one of its configurations.
EngineIdle ==
    /\ EngineInit
    /\ execution_mode = "Isolated"
    /\ shell_command = << "sh", "-c" >>

\* The Dispatcher thread has left its loop: its receivers are dropped.
DispatcherGone == dpc = "done"

\* The CommandExecutionHandler is dropped, and with it cmd_in_send, stop_send
\* and cmd_out_receive.
SendersGone == ui = "dropped"
OutcomeReceiverGone == ui = "dropped"

\* ------------------------------------------------------------ UI thread

\* Mutant of execute: the blocklist is applied by the UI thread, which answers
\* a refused command itself and never enqueues it.
execute_refusing_early(command) ==
    /\ ui = "live"
    /\ submitted < MaxReq
    /\ submitted' = submitted + 1
    /\ IF DispatcherGone
       THEN ui' = "panicked in execute" /\ UNCHANGED << cmd_in, cmd_out >>
       ELSE /\ IF execution_mode = "Unsafe" /\ is_unsafe_command(command)
               THEN /\ cmd_out' = Append(cmd_out, CmdNotOk(submitted + 1, UNSAFE_CMD_ERR))
                    /\ UNCHANGED cmd_in
               ELSE /\ cmd_in' = Append(cmd_in, [id |-> submitted + 1, command |-> command])
                    /\ UNCHANGED cmd_out
            /\ UNCHANGED ui
    /\ UNCHANGED << libvars, config, handed, stop_chan, dispvars, osvars,
                    already_killed, watchvars >>

\* Mutant of execute: the request is put at the front of the request queue.
execute_jumping_queue(command) ==
    /\ ui = "live"
    /\ submitted < MaxReq
    /\ submitted' = submitted + 1
    /\ IF DispatcherGone
       THEN ui' = "panicked in execute" /\ UNCHANGED cmd_in
       ELSE /\ cmd_in' = << [id |-> submitted + 1, command |-> command] >> \o cmd_in
            /\ UNCHANGED ui
    /\ UNCHANGED << libvars, config, handed, stop_chan, cmd_out, dispvars, osvars,
                    already_killed, watchvars >>

\* execute(): cmd_in_send.send(cmd).unwrap()
execute(command) ==
    /\ ui = "live"
    /\ submitted < MaxReq
    /\ submitted' = submitted + 1
    /\ IF DispatcherGone
       THEN ui' = "panicked in execute" /\ UNCHANGED cmd_in
       ELSE /\ cmd_in' = Append(cmd_in, [id |-> submitted + 1, command |-> command])
            /\ UNCHANGED ui
    /\ UNCHANGED << libvars, config, handed, stop_chan, cmd_out, dispvars, osvars,
                    already_killed, watchvars >>

\* stop(): stop_send.send(()).unwrap()
stop ==
    /\ ui = "live"
    /\ stop_chan < MaxStop
    /\ IF DispatcherGone
       THEN ui' = "panicked in stop" /\ UNCHANGED stop_chan
       ELSE stop_chan' = stop_chan + 1 /\ UNCHANGED ui
    /\ UNCHANGED << libvars, config, handed, submitted, cmd_in, cmd_out, dispvars, osvars,
                    already_killed, watchvars >>

\* ------------------------------------------------------------ Dispatcher thread

\* write_stdin_to_child: the lines are written, or a write fails; the caller
\* ignores the result either way.
write_stdin_to_child(pipeOk) == IF pipeOk THEN "Ok" ELSE "Err"

\* Mutant of DispRecvCmd: the Err arm sends the NotOk and leaves the loop.
DispRecvCmdErrBreaks ==
    /\ dpc = "select"
    /\ cmd_in # <<>>
    /\ LET new_cmd == Head(cmd_in) IN
       \E osOk \in BOOLEAN, pipeOk \in BOOLEAN :
          LET child == spawn_command(shell_command, new_cmd.command, execution_mode, osOk)
              written == write_stdin_to_child(pipeOk)
          IN
          /\ cmd_in' = Tail(cmd_in)
          /\ handed' = handed \cup {new_cmd.id}
          /\ IF child.ok
             THEN /\ written \in {"Ok", "Err"}
                  /\ proc' = [proc EXCEPT ![new_cmd.id] = "running"]
                  /\ cur' = new_cmd.id
                  /\ old' = active_command
                  /\ active_command' = 0
                  /\ dpc' = IF active_command # 0 THEN "kill_load" ELSE "start"
                  /\ UNCHANGED cmd_out
             ELSE /\ IF OutcomeReceiverGone
                     THEN dpc' = "done" /\ UNCHANGED cmd_out
                     ELSE /\ cmd_out' = Append(cmd_out, CmdNotOk(new_cmd.id, child.err))
                          /\ dpc' = "done"
                  /\ UNCHANGED << proc, cur, old, active_command >>
    /\ UNCHANGED << libvars, config, uivars, stop_chan, signals, already_killed, watchvars >>

\* Mutant of DispRecvCmd: the Err arm has taken the active handle.
DispRecvCmdErrTakesHandle ==
    /\ dpc = "select"
    /\ cmd_in # <<>>
    /\ LET new_cmd == Head(cmd_in) IN
       \E osOk \in BOOLEAN, pipeOk \in BOOLEAN :
          LET child == spawn_command(shell_command, new_cmd.command, execution_mode, osOk)
              written == write_stdin_to_child(pipeOk)
          IN
          /\ cmd_in' = Tail(cmd_in)
          /\ handed' = handed \cup {new_cmd.id}
          /\ IF child.ok
             THEN /\ written \in {"Ok", "Err"}
                  /\ proc' = [proc EXCEPT ![new_cmd.id] = "running"]
                  /\ cur' = new_cmd.id
                  /\ old' = active_command
                  /\ active_command' = 0
                  /\ dpc' = IF active_command # 0 THEN "kill_load" ELSE "start"
                  /\ UNCHANGED cmd_out
             ELSE /\ IF OutcomeReceiverGone
                     THEN dpc' = "done" /\ UNCHANGED cmd_out
                     ELSE /\ cmd_out' = Append(cmd_out, CmdNotOk(new_cmd.id, child.err))
                          /\ UNCHANGED dpc
                  /\ active_command' = 0
                  /\ UNCHANGED << proc, cur, old >>
    /\ UNCHANGED << libvars, config, uivars, stop_chan, signals, already_killed, watchvars >>

\* select!: recv(cmd_in_receive) is ready with a request and chosen;
\* spawn_command; on Err the NotOk is sent at once (the unwrap() of a send
\* with the outcome receiver dropped panics and ends the thread), on Ok the
\* stdin is written and active_command.take() decides whether kill() runs
\* first.
DispRecvCmd ==
    /\ dpc = "select"
    /\ cmd_in # <<>>
    /\ LET new_cmd == Head(cmd_in) IN
       \E osOk \in BOOLEAN, pipeOk \in BOOLEAN :
          LET child == spawn_command(shell_command, new_cmd.command, execution_mode, osOk)
              written == write_stdin_to_child(pipeOk)
          IN
          /\ cmd_in' = Tail(cmd_in)
          /\ handed' = handed \cup {new_cmd.id}
          /\ IF child.ok
             THEN /\ written \in {"Ok", "Err"}
                  /\ proc' = [proc EXCEPT ![new_cmd.id] = "running"]
                  /\ cur' = new_cmd.id
                  /\ old' = active_command
                  /\ active_command' = 0
                  /\ dpc' = IF active_command # 0 THEN "kill_load" ELSE "start"
                  /\ UNCHANGED cmd_out
             ELSE /\ IF OutcomeReceiverGone
                     THEN dpc' = "done" /\ UNCHANGED cmd_out
                     ELSE /\ cmd_out' = Append(cmd_out, CmdNotOk(new_cmd.id, child.err))
                          /\ UNCHANGED dpc
                  /\ UNCHANGED << proc, cur, old, active_command >>
    /\ UNCHANGED << libvars, config, uivars, stop_chan, signals, already_killed, watchvars >>

\* select!: recv(stop_receive) is ready and chosen; it is ready with a message
\* in the channel and also, with an Err that the arm ignores, when the channel
\* is empty and its sender is dropped.
DispRecvStop ==
    /\ dpc = "select"
    /\ stop_chan > 0 \/ SendersGone
    /\ stop_chan' = IF stop_chan > 0 THEN stop_chan - 1 ELSE 0
    /\ cur' = 0
    /\ old' = active_command
    /\ active_command' = 0
    /\ dpc' = IF active_command # 0 THEN "kill_load" ELSE "done"
    /\ UNCHANGED << libvars, config, handed, uivars, cmd_in, cmd_out, osvars, already_killed, watchvars >>

\* Where the Dispatcher goes when kill() returns: on to the new Watcher, or,
\* on the stop path, out of the loop.
AfterKill == IF cur = 0 THEN "done" ELSE "start"

\* Mutant of KillLoad: kill() returns at once whatever the flag says.
KillLoadAlwaysReturns ==
    /\ dpc = "kill_load"
    /\ dpc' = AfterKill
    /\ old' = 0
    /\ UNCHANGED << libvars, config, handed, uivars, cmd_in, stop_chan, cmd_out, cur, active_command,
                    osvars, already_killed, watchvars >>

\* Mutant of KillLoad: kill() does not look at the flag and always goes on to
\* send the signal.
KillLoadIgnoresFlag ==
    /\ dpc = "kill_load"
    /\ dpc' = "kill_signal"
    /\ UNCHANGED << libvars, config, handed, uivars, cmd_in, stop_chan, cmd_out, cur, old,
                    active_command, osvars, already_killed, watchvars >>

\* kill(): if self.already_killed.load(SeqCst) { return; }
KillLoad ==
    /\ dpc = "kill_load"
    /\ dpc' = IF already_killed[old] THEN AfterKill ELSE "kill_signal"
    /\ old' = IF already_killed[old] THEN 0 ELSE old
    /\ UNCHANGED << libvars, config, handed, uivars, cmd_in, stop_chan, cmd_out, cur, active_command,
                    osvars, already_killed, watchvars >>

\* kill(): libc::kill(self.pid, SIGKILL). A running child dies; a child that
\* has exited and is not reaped is unaffected; after the reap the pid is free.
KillSignal ==
    /\ dpc = "kill_signal"
    /\ signals' = [signals EXCEPT ![old] = @ + 1]
    /\ proc' = [proc EXCEPT ![old] = IF @ = "running" THEN "killed" ELSE @]
    /\ dpc' = "kill_store"
    /\ UNCHANGED << libvars, config, handed, uivars, cmd_in, stop_chan, cmd_out, cur, old, active_command,
                    already_killed, watchvars >>

\* kill(): self.already_killed.store(true, SeqCst)
KillStore ==
    /\ dpc = "kill_store"
    /\ already_killed' = [already_killed EXCEPT ![old] = TRUE]
    /\ dpc' = AfterKill
    /\ old' = 0
    /\ UNCHANGED << libvars, config, handed, uivars, cmd_in, stop_chan, cmd_out, cur, active_command,
                    osvars, watchvars >>

\* active_command = Some(wait_for_child_and_send_output(child, ..)): the flag
\* is created false, the Watcher thread is started, the handle is recorded.
DispStartWatcher ==
    /\ dpc = "start"
    /\ already_killed' = [already_killed EXCEPT ![cur] = FALSE]
    /\ wpc' = [wpc EXCEPT ![cur] = "wait"]
    /\ active_command' = cur
    /\ cur' = 0
    /\ dpc' = "select"
    /\ UNCHANGED << libvars, config, handed, uivars, cmd_in, stop_chan, cmd_out, old, osvars, status >>

\* ------------------------------------------------------------ child processes

\* A running child exits by itself.
ProcExit(r) ==
    /\ proc[r] = "running"
    /\ proc' = [proc EXCEPT ![r] = "exited"]
    /\ UNCHANGED << libvars, config, handed, uivars, cmd_in, stop_chan, cmd_out, dispvars, signals,
                    already_killed, watchvars >>

\* ------------------------------------------------------------ Watcher threads

\* child.wait_timeout(timeout): Ok(Some(status)) reaps a child that has
\* ended (an exit status is success or not, a SIGKILLed child's is not);
\* Ok(None) when the timeout elapses with the child still running, which is
\* left as it is; Err when the wait itself fails.
WatcherWait(r) ==
    /\ wpc[r] = "wait"
    /\ \/ /\ proc[r] \in {"exited", "killed"}
          /\ \E st \in (IF proc[r] = "exited" THEN {"exit0", "exit1"} ELSE {"killed"}) :
                status' = [status EXCEPT ![r] = st]
          /\ proc' = [proc EXCEPT ![r] = "reaped"]
       \/ /\ proc[r] = "running"
          /\ status' = [status EXCEPT ![r] = "timeout"]
          /\ UNCHANGED proc
       \/ /\ status' = [status EXCEPT ![r] = "error"]
          /\ UNCHANGED proc
    /\ wpc' = [wpc EXCEPT ![r] = "check"]
    /\ UNCHANGED << libvars, config, handed, uivars, cmd_in, stop_chan, cmd_out, dispvars, signals,
                    already_killed >>

\* if already_killed.load(SeqCst) { return; }
WatcherCheck(r) ==
    /\ wpc[r] = "check"
    /\ wpc' = [wpc EXCEPT ![r] = IF already_killed[r] THEN "done" ELSE "report"]
    /\ status' = [status EXCEPT ![r] = IF already_killed[r] THEN "-" ELSE @]
    /\ UNCHANGED << libvars, config, handed, uivars, cmd_in, stop_chan, cmd_out, dispvars, osvars,
                    already_killed >>

\* match status { .. }: the CmdOutput of each arm.
Outcome(r, st) ==
    CASE st = "exit0" -> CmdOk(r, STDOUT_TEXT)
      [] st \in {"exit1", "killed"} -> CmdNotOk(r, STDERR_TEXT)
      [] st = "timeout" -> CmdNotOk(r, TIMEOUT_MSG)
      [] OTHER -> CmdNotOk(r, WAIT_ERR)

\* Mutant of WatcherReport: the outcome is sent in the arm and once more after
\* the match.
WatcherReportTwice(r) ==
    /\ wpc[r] = "report"
    /\ cmd_out' = Append(Append(cmd_out, Outcome(r, status[r])), Outcome(r, status[r]))
    /\ wpc' = [wpc EXCEPT ![r] = "store"]
    /\ status' = [status EXCEPT ![r] = "-"]
    /\ UNCHANGED << libvars, config, handed, uivars, cmd_in, stop_chan, dispvars, osvars,
                    already_killed >>

\* Mutant of WatcherReport: the arm st sends nothing.
WatcherReportSilentOn(r, st) ==
    /\ wpc[r] = "report"
    /\ cmd_out' = IF status[r] = st THEN cmd_out ELSE Append(cmd_out, Outcome(r, status[r]))
    /\ wpc' = [wpc EXCEPT ![r] = "store"]
    /\ status' = [status EXCEPT ![r] = "-"]
    /\ UNCHANGED << libvars, config, handed, uivars, cmd_in, stop_chan, dispvars, osvars,
                    already_killed >>

WatcherReportSilentOnError(r) == WatcherReportSilentOn(r, "error")

WatcherReportSilentOnTimeout(r) == WatcherReportSilentOn(r, "timeout")

\* The arm's pipes are read and finished_channel.send(..) is called; the
\* unwrap() of a send with the outcome receiver dropped panics and ends the
\* thread.
WatcherReport(r) ==
    /\ wpc[r] = "report"
    /\ cmd_out' = IF OutcomeReceiverGone THEN cmd_out ELSE Append(cmd_out, Outcome(r, status[r]))
    /\ wpc' = [wpc EXCEPT ![r] = IF OutcomeReceiverGone THEN "done" ELSE "store"]
    /\ status' = [status EXCEPT ![r] = "-"]
    /\ UNCHANGED << libvars, config, handed, uivars, cmd_in, stop_chan, dispvars, osvars,
                    already_killed >>

\* Mutant of WatcherStore: the flag is stored as the opposite of what it is.
WatcherStoreFlips(r) ==
    /\ wpc[r] = "store"
    /\ already_killed' = [already_killed EXCEPT ![r] = ~@]
    /\ wpc' = [wpc EXCEPT ![r] = "done"]
    /\ UNCHANGED << libvars, config, handed, uivars, cmd_in, stop_chan, cmd_out, dispvars, osvars,
                    status >>

\* already_killed.store(true, SeqCst); the thread ends and child is dropped.
WatcherStore(r) ==
    /\ wpc[r] = "store"
    /\ already_killed' = [already_killed EXCEPT ![r] = TRUE]
    /\ wpc' = [wpc EXCEPT ![r] = "done"]
    /\ UNCHANGED << libvars, config, handed, uivars, cmd_in, stop_chan, cmd_out, dispvars, osvars,
                    status >>

\* ------------------------------------------------------------ the handler is dropped

\* The UI drops the CommandExecutionHandler.
DropHandler ==
    /\ ui = "live"
    /\ ui' = "dropped"
    /\ UNCHANGED << libvars, config, handed, submitted, cmd_in, stop_chan, cmd_out, dispvars, osvars,
                    already_killed, watchvars >>

\* select!: recv(cmd_in_receive) is ready with an Err, the channel being empty
\* and its sender dropped, and chosen: let Ok(new_cmd) = msg else { break; }
DispRecvClosed ==
    /\ dpc = "select"
    /\ SendersGone
    /\ cmd_in = <<>>
    /\ dpc' = "done"
    /\ UNCHANGED << libvars, config, handed, uivars, cmd_in, stop_chan, cmd_out, cur, old,
                    active_command, osvars, already_killed, watchvars >>

\* ------------------------------------------------------------ specification

UI == (\E c \in Commands : execute(c)) \/ stop

Dispatcher ==
    DispRecvCmd \/ DispRecvStop \/ KillLoad \/ KillSignal \/ KillStore \/ DispStartWatcher

Watcher(r) == WatcherWait(r) \/ WatcherCheck(r) \/ WatcherReport(r) \/ WatcherStore(r)

Next ==
    \/ UI
    \/ Dispatcher
    \/ \E r \in Reqs : Watcher(r)
    \/ \E r \in Reqs : ProcExit(r)

Spec == Init /\ [][Next]_vars

\* Threads that can run do run, and a wait_timeout returns when its child has
\* ended or its timeout has elapsed. Nothing makes the UI call the engine, and
\* nothing makes a child exit.
Fairness ==
    /\ WF_vars(Dispatcher)
    /\ \A r \in Reqs : WF_vars(Watcher(r))

FairSpec == Spec /\ Fairness

\* The engine with a UI that may also drop the handler.
DropNext == Next \/ DropHandler \/ DispRecvClosed

DropSpec == Init /\ [][DropNext]_vars

FairDropSpec == DropSpec /\ Fairness /\ WF_vars(DispRecvClosed)

\* ------------------------------------------------------------ a child's output

MaxStream == 3

StreamBytes == { "a", "\n", "\r", INVALID }
Streams == StringsOver(StreamBytes, MaxStream)

\* A child has exited within the timeout with its handle's flag false: what it
\* wrote and how it exited are any.
ReadInit ==
    /\ EngineIdle
    /\ pipes \in [stdout : Streams, stderr : Streams, success : BOOLEAN]
    /\ sent = <<>>
    /\ SnipIdle
    /\ ListIdle

\* wait_for_child_and_send_output, the arms for an exit status: Ok of the
\* stdout read for success, NotOk of the stderr read otherwise.
ReportExit ==
    /\ sent = <<>>
    /\ sent' = << IF pipes.success
                  THEN CmdOk(1, read_lines_to_string(pipes.stdout))
                  ELSE CmdNotOk(1, read_lines_to_string(pipes.stderr)) >>
    /\ UNCHANGED << enginevars, pipes, snipvars, listvars >>

ReadNext == ReportExit

ReadSpec == ReadInit /\ [][ReadNext]_vars

\* ------------------------------------------------------------ parsing a snippet

MaxSnippet == 5

SnippetBytes == { "a", "b", "|" }

SnipInit ==
    /\ EngineIdle
    /\ ReadIdle
    /\ snippet_src \in StringsOver(SnippetBytes, MaxSnippet)
    /\ snippet = <<>>
    /\ ListIdle

\* Snippet::parse(snippet_src) is called.
ParseSnippet ==
    /\ snippet = <<>>
    /\ snippet' = << parse(snippet_src) >>
    /\ UNCHANGED << enginevars, readvars, snippet_src, listvars >>

SnipNext == ParseSnippet

SnipSpec == SnipInit /\ [][SnipNext]_vars

\* ------------------------------------------------------------ using a command list

MaxList == 3

\* The entries given to the calls: without lines, of one empty line, "a", "b",
\* "a" and an empty line after it, and the one line "---".
Entries ==
    { <<>>,
      << <<>> >>,
      << << "a" >> >>,
      << << "b" >> >>,
      << << "a" >>, <<>> >>,
      << SERIALIZATION_ENTRY_SEPERATOR >> }

\* CommandList::new(Some(path), max_size)
ListInit ==
    /\ EngineIdle
    /\ ReadIdle
    /\ SnipIdle
    /\ list \in [entries : { <<>> }, max_size : { None } \cup { Some(k) : k \in 0..MaxList }]
    /\ file = <<>>
    /\ call = [fn |-> "new", entry |-> <<>>, before |-> <<>>]

\* A list without max_size is given at most MaxList entries.
Room == list.max_size.some \/ Len(list.entries) < MaxList

CallPush(entry) ==
    /\ Room
    /\ list' = push(list, entry)
    /\ file' = IF push_accepts(list, entry) THEN serialize(list') ELSE file
    /\ call' = [fn |-> "push", entry |-> entry, before |-> list.entries]
    /\ UNCHANGED << enginevars, readvars, snipvars >>

CallRemoveEntry(entry) ==
    /\ list' = remove_entry(list, entry)
    /\ file' = serialize(list')
    /\ call' = [fn |-> "remove_entry", entry |-> entry, before |-> list.entries]
    /\ UNCHANGED << enginevars, readvars, snipvars >>

CallToggleEntry(entry) ==
    /\ Room
    /\ list' = toggle_entry(list, entry)
    /\ file' = IF \/ entry # <<>> /\ contains(list.entries, entry)
                  \/ entry # <<>> /\ push_accepts(list, entry)
               THEN serialize(list') ELSE file
    /\ call' = [fn |-> "toggle_entry", entry |-> entry, before |-> list.entries]
    /\ UNCHANGED << enginevars, readvars, snipvars >>

\* CommandList::set_entries with any entries that fit max_size.
CallSetEntries(entries) ==
    /\ list.max_size.some => Len(entries) <= list.max_size.n
    /\ list' = [list EXCEPT !.entries = entries]
    /\ file' = serialize(list')
    /\ call' = [fn |-> "set_entries", entry |-> <<>>, before |-> <<>>]
    /\ UNCHANGED << enginevars, readvars, snipvars >>

\* CommandList::load_from_file(path, max_size): the program starts again and
\* reads the list from its file.
CallLoadFromFile ==
    /\ list' = deserialize(list.max_size, file, file).list
    /\ file' = deserialize(list.max_size, file, file).file
    /\ call' = [fn |-> "load_from_file", entry |-> <<>>, before |-> list.entries]
    /\ UNCHANGED << enginevars, readvars, snipvars >>

ListNext ==
    \E entry \in Entries :
        \/ CallPush(entry)
        \/ CallRemoveEntry(entry)
        \/ CallToggleEntry(entry)

ListSpec == ListInit /\ [][ListNext]_vars

StoredNext ==
    \/ ListNext
    \/ \E entries \in StringsOver(Entries, MaxList) : CallSetEntries(entries)
    \/ CallLoadFromFile

StoredSpec == ListInit /\ [][StoredNext]_vars

\* ------------------------------------------------------------ properties

Unreaped(r) == proc[r] \in {"running", "exited", "killed"}

OutcomesFor(r) == { i \in 1..Len(cmd_out) : cmd_out[i].req = r }

Count(r) == Cardinality(OutcomesFor(r))

ReportedTimeout(r) ==
    \E i \in OutcomesFor(r) : cmd_out[i] = CmdNotOk(r, TIMEOUT_MSG)

InQueue(r) == \E i \in 1..Len(cmd_in) : cmd_in[i].id = r

\* The texts the Dispatcher itself sends, on a failed spawn_command.
DispatcherTexts == {UNSAFE_CMD_ERR, SHELL_EMPTY_ERR, SPAWN_ERR}

\* C1: a request whose process the Dispatcher's kill() has sent SIGKILL to has
\* no outcome on the outcome queue, in any interleaving (the signal and the
\* outcome both stay once they are there, so this covers an outcome sent
\* before the kill and one sent after it).
C1_KilledRequestHasNoOutcome ==
    \A r \in Reqs : signals[r] > 0 => Count(r) = 0

\* C2: the outcome queue holds at most one CmdOutput for each request, the
\* Dispatcher's NotOk on a failed spawn and the Watcher's report counted
\* together.
C2_AtMostOneOutcomePerRequest ==
    \A r \in Reqs : Count(r) <= 1

\* C2 witness: both producers have sent, the Dispatcher a spawn failure for one
\* request and a Watcher its report for another, and both threads are through.
C2_BothProducersSent ==
    \E a, b \in Reqs :
        /\ a # b
        /\ \E i \in OutcomesFor(a) : cmd_out[i].text \in DispatcherTexts
        /\ \E j \in OutcomesFor(b) : cmd_out[j].text \notin DispatcherTexts
        /\ wpc[b] = "done"

\* C3: every outcome on the outcome queue is for a request that the Dispatcher
\* dequeued and handed to spawn_command.
C3_OutcomesOnlyForHandedRequests ==
    \A i \in 1..Len(cmd_out) : cmd_out[i].req \in handed

\* C3 witness: the Dispatcher has left its loop with a request still in the
\* request queue, and the outcome queue holds an outcome of an earlier request.
C3_RequestLeftInQueue ==
    /\ DispatcherGone
    /\ cmd_in # <<>>
    /\ cmd_out # <<>>

\* C4: a request whose process was spawned gets exactly one outcome unless
\* kill() signals its process, and a Watcher that has passed the flag check
\* (wait_timeout returned, flag false) sends its one CmdOutput.
C4_UnpreemptedRequestReports ==
    \A r \in Reqs :
        /\ (proc[r] # "none") ~> (Count(r) = 1 \/ signals[r] > 0)
        /\ (wpc[r] = "report") ~> (Count(r) = 1)

\* C4 witness: a Watcher has run to its end for a request that was never
\* signalled, and the request has its one outcome.
C4_UnpreemptedReported ==
    \E r \in Reqs : wpc[r] = "done" /\ signals[r] = 0 /\ Count(r) = 1

C6_NewRequestEndsOldProcess ==
    \A a, b \in Reqs :
        [] ( (dpc = "kill_load" /\ old = a /\ cur = b /\ proc[a] = "running")
                => (<>(active_command = b) /\ <>(proc[a] # "running")) )

\* The blocklist as the claim words it: the text contains "rm ", "mv " or "dd ".
C7_Blocklisted(cmd) ==
    \E i \in 1..Len(cmd) :
        /\ i + 2 <= Len(cmd)
        /\ << cmd[i], cmd[i + 1] >> \in { <<"r", "m">>, <<"m", "v">>, <<"d", "d">> }
        /\ cmd[i + 2] = " "

\* C7: in Unsafe mode, the Dispatcher's handling of a request whose text is
\* blocklisted sends exactly the fixed refusal as NotOk and changes nothing
\* else: no process is created, the active handle, the processes, their
\* signals and flags and the Watchers are as before; and a request refused
\* with that text never has a process.
C7_BlocklistedIsRefused ==
    [][ /\ ( /\ execution_mode = "Unsafe"
             /\ dpc = "select"
             /\ cmd_in # <<>>
             /\ cmd_in' = Tail(cmd_in)
             /\ C7_Blocklisted(Head(cmd_in).command) )
           => /\ cmd_out' = Append(cmd_out, CmdNotOk(Head(cmd_in).id, UNSAFE_CMD_ERR))
              /\ UNCHANGED << dispvars, osvars, already_killed, watchvars >>
        /\ \A i \in 1..Len(cmd_out') :
              cmd_out'[i].text = UNSAFE_CMD_ERR => proc'[cmd_out'[i].req] = "none"
      ]_vars

\* C7 witness: a request was refused with the fixed text while an earlier
\* request's child is running and is still the active handle.
C7_RefusedWhileRunning ==
    /\ execution_mode = "Unsafe"
    /\ active_command # 0
    /\ proc[active_command] = "running"
    /\ \E i \in 1..Len(cmd_out) :
          /\ cmd_out[i] = CmdNotOk(cmd_out[i].req, UNSAFE_CMD_ERR)
          /\ cmd_out[i].req > active_command

\* A stop() has been called and not been lost: the signal waits in the stop
\* channel, or the Dispatcher is on the stop path or has left its loop.
StopRequested ==
    \/ stop_chan > 0
    \/ DispatcherGone
    \/ (cur = 0 /\ dpc \in {"kill_load", "kill_signal", "kill_store"})

\* The request was handed to spawn_command and its handling has come to an
\* end: it has its outcome, or its process was signalled by kill().
Resolved(r) == r \in handed /\ (Count(r) = 1 \/ signals[r] > 0)

\* C8: a Watcher whose wait_timeout timed out sends NotOk("Command timed out")
\* unless kill() signalled the process; and with a timeout reported, a request
\* in the request queue is dequeued, handed to spawn_command and resolved,
\* unless a stop() ends the Dispatcher.
C8_TimeoutReportedAndEngineGoesOn ==
    \A r \in Reqs :
        /\ (wpc[r] = "check" /\ status[r] = "timeout")
              ~> (ReportedTimeout(r) \/ signals[r] > 0)
        /\ \A q \in Reqs :
              (ReportedTimeout(r) /\ InQueue(q)) ~> (Resolved(q) \/ StopRequested)

\* C8 witness: a timeout was reported for one request, its child is still
\* running, and a later request has since been spawned and got its outcome
\* from its Watcher, with no stop() called.
C8_RequestResolvedAfterTimeout ==
    \E r, q \in Reqs :
        /\ r < q
        /\ ReportedTimeout(r)
        /\ cmd_out[1].req = r
        /\ wpc[q] = "done"
        /\ Count(q) = 1
        /\ ~StopRequested

\* C9: a child whose Watcher has handled the timeout is not running any more.
C9_NoChildRunsPastTimeout ==
    \A r \in Reqs : (ReportedTimeout(r) /\ wpc[r] = "done") => proc[r] # "running"

\* C10: no stop() call panics, however many are made and wherever the
\* Dispatcher is.
C10_StopNeverPanics ==
    ui # "panicked in stop"

\* The Dispatcher is inside kill(), called on the handle old.
InKill == dpc \in {"kill_load", "kill_signal", "kill_store"}

\* C11: when the kill() that the stop path calls on the active handle returns
\* and the Dispatcher leaves its loop, the process of that handle has been
\* sent SIGKILL, unless it is not running any more; this includes a process
\* whose Watcher has reported a timeout.
C11_StopSignalsActiveProcess ==
    [][ (InKill /\ cur = 0 /\ dpc' = "done")
           => (signals'[old] > 0 \/ proc'[old] # "running") ]_vars

\* C19: SIGKILL is sent to a handle's pid at most once; a kill() that loads
\* the flag as true returns with no signal sent and nothing changed; a kill()
\* that loads it as false sends the signal, once, and then stores true.
C19_KillSignalsAtMostOnce ==
    /\ [](\A r \in Reqs : signals[r] <= 1)
    /\ [][ /\ (dpc = "kill_load" /\ already_killed[old] /\ dpc' # dpc)
              => /\ dpc' = AfterKill
                 /\ UNCHANGED << osvars, already_killed, watchvars, cmd_out, active_command >>
           /\ (dpc = "kill_load" /\ ~already_killed[old] /\ dpc' # dpc)
              => /\ dpc' = "kill_signal"
                 /\ UNCHANGED << old, osvars, already_killed >>
           /\ (dpc = "kill_signal" /\ dpc' # dpc)
              => /\ dpc' = "kill_store"
                 /\ old' = old
                 /\ signals' = [signals EXCEPT ![old] = 1]
           /\ (dpc = "kill_store" /\ dpc' # dpc)
              => /\ dpc' = AfterKill
                 /\ already_killed'[old]
                 /\ signals' = signals
       ]_vars

\* C19 witness: the Dispatcher has left its loop after two kill() calls, one
\* that found the flag false and signalled the first request's process, and
\* the stop path's on the second handle, whose Watcher had finished: no
\* signal for it.
C19_OneSignalledOneNoOp ==
    /\ DispatcherGone
    /\ signals[1] = 1
    /\ already_killed[1]
    /\ wpc[2] = "done"
    /\ Count(2) = 1
    /\ signals[2] = 0
    /\ active_command = 0

\* C20: whenever an outcome sent by a request's Watcher is on the outcome
\* queue, that Watcher's flag is true (the flag is set before the outcome is
\* published).
C20_FlagSetBeforeOutcome ==
    \A r \in Reqs : (wpc[r] # "none" /\ Count(r) >= 1) => already_killed[r]

\* C12: with the request queue closed and empty, no stop signal sent and a
\* handle active, the Dispatcher's next step is the kill() of that handle, as
\* on the stop path.
C12_ClosedQueueKillsActive ==
    [][ ( /\ dpc = "select"
          /\ SendersGone
          /\ cmd_in = <<>>
          /\ stop_chan = 0
          /\ active_command # 0
          /\ dpc' # dpc )
           => (dpc' = "kill_load" /\ old' = active_command) ]_vars

\* The Dispatcher's step is on the stop path: it takes the stop signal, or it
\* returns from the kill() that the stop path called.
StopPathStep ==
    \/ dpc = "select" /\ stop_chan > 0 /\ stop_chan' = stop_chan - 1
    \/ InKill /\ cur = 0

NewlineTerminated(text) ==
    /\ \A i \in 1..Len(text) : text[i] # INVALID
    /\ text = <<>> \/ text[Len(text)] = "\n"
    /\ find(text, << "\r", "\n" >>) = -1

\* C14: the outcome sent for a child that exited is Ok with exactly what the
\* child wrote to stdout when it exited with success and NotOk with exactly
\* what it wrote to stderr otherwise, for every output whose lines are
\* newline-terminated, the empty output included.
C14_OutcomeCarriesExactOutput ==
    sent # <<>> =>
        /\ (pipes.success /\ NewlineTerminated(pipes.stdout))
              => sent[1] = CmdOk(1, pipes.stdout)
        /\ (~pipes.success /\ NewlineTerminated(pipes.stderr))
              => sent[1] = CmdNotOk(1, pipes.stderr)

\* The bytes of str that are not "|", in their order.
RECURSIVE NonMarkerBytes(_)
NonMarkerBytes(str) ==
    IF str = <<>> THEN <<>>
    ELSE (IF str[1] = "|" THEN <<>> ELSE << str[1] >>) \o NonMarkerBytes(Tail(str))

\* C15: the parsed text has no marker left and keeps the other bytes of s in
\* their order, cursor_offset is the offset of the first marker in s (the
\* length of s without one), it is at most the length of the text, and the
\* text before it is the text of s before it.
C15_CursorInsideText ==
    snippet # <<>> =>
        LET sn == snippet[1]
            s == snippet_src
            markers == { i \in 0..(Len(s) - 2) : SubSeq(s, i + 1, i + 2) = MARKER }
        IN /\ \A i \in 1..(Len(sn.text) - 1) : SubSeq(sn.text, i, i + 1) # MARKER
           /\ NonMarkerBytes(sn.text) = NonMarkerBytes(s)
           /\ markers = {} => (sn.cursor_offset = Len(s) /\ sn.text = s)
           /\ markers # {} => (sn.cursor_offset \in markers /\ \A i \in markers : sn.cursor_offset <= i)
           /\ sn.cursor_offset <= Len(sn.text)
           /\ SubSeq(sn.text, 1, sn.cursor_offset) = SubSeq(s, 1, sn.cursor_offset)

\* C15 witness: "||a||" has been parsed, to the text "a" with the cursor
\* before it.
C15_TwoMarkersParsed ==
    /\ snippet_src = << "|", "|", "a", "|", "|" >>
    /\ snippet = << [text |-> << "a" >>, cursor_offset |-> 0] >>

\* The list after the last call holds at most max_size entries.
WithinMaxSize == list.max_size.some => Len(list.entries) <= list.max_size.n

\* The last call was a push of an entry whose text is empty or that was the
\* last entry: the list is as before.
RefusedPushLeavesList ==
    (/\ call.fn = "push"
     /\ \/ as_string(call.entry) = <<>>
        \/ call.before # <<>> /\ call.before[Len(call.before)] = call.entry)
       => list.entries = call.before

\* The last call was a push of another entry.
AcceptedPush ==
    /\ call.fn = "push"
    /\ as_string(call.entry) # <<>>
    /\ call.before = <<>> \/ call.before[Len(call.before)] # call.entry

\* The pushed entry would exceed max_size.
PushExceeds == list.max_size.some /\ Len(call.before) + 1 > list.max_size.n

\* C16 as stated: the list holds at most max_size entries after any calls of
\* push, toggle_entry and remove_entry; a push that would exceed max_size
\* evicts the entry at index 0 and the pushed entry is the last one after it;
\* a push of an entry with empty text or equal to the last entry leaves the
\* list as it was.
C16_PushKeepsPushedEntryLast ==
    /\ WithinMaxSize
    /\ RefusedPushLeavesList
    /\ AcceptedPush =>
          /\ list.entries # <<>>
          /\ list.entries[Len(list.entries)] = call.entry
          /\ list.entries = IF PushExceeds
                            THEN Tail(call.before) \o << call.entry >>
                            ELSE call.before \o << call.entry >>

\* C16 amended: as stated for max_size of at least 1 and without max_size;
\* with max_size = Some(0) the pushed entry is itself the one evicted and the
\* list stays empty.
C16_PushRespectsMaxSize ==
    /\ WithinMaxSize
    /\ RefusedPushLeavesList
    /\ AcceptedPush =>
          IF list.max_size = Some(0)
          THEN call.before = <<>> /\ list.entries = <<>>
          ELSE /\ list.entries # <<>>
               /\ list.entries[Len(list.entries)] = call.entry
               /\ list.entries = IF PushExceeds
                                 THEN Tail(call.before) \o << call.entry >>
                                 ELSE call.before \o << call.entry >>

\* C16 witness: the push of "b" on the full list of "a" and "---" with
\* max_size = Some(2) has evicted "a" and put "b" last.
C16_OldestEvicted ==
    /\ list.max_size = Some(2)
    /\ call.fn = "push"
    /\ call.before = << << << "a" >> >>, << SERIALIZATION_ENTRY_SEPERATOR >> >>
    /\ list.entries = << << SERIALIZATION_ENTRY_SEPERATOR >>, << << "b" >> >> >>

\* C17: after toggle_entry(e) for an entry e of at least one line, e is not
\* in the list if it was in it before the call, and is in the list if it was
\* not in it before.
C17_ToggleFlipsMembership ==
    (call.fn = "toggle_entry" /\ call.entry # <<>>)
       => (contains(call.before, call.entry) <=> ~contains(list.entries, call.entry))

\* C18: the text that serialize gives for a list within its max_size is
\* deserialized to a list of the same entries in the same order; the list's
\* file holds that text, and a list read from it has the entries the list had.
C18_SerializationRoundTrips ==
    /\ WithinMaxSize
          => deserialize(list.max_size, serialize(list), file).list.entries = list.entries
    /\ call.fn = "load_from_file" => list.entries = call.before

\* C21: kill() never sends the signal to the pid of a process that its
\* Watcher's wait_timeout has reaped, in any interleaving of the Dispatcher
\* and the Watcher.
C21_NoSignalAfterReap ==
    [][ (dpc = "kill_signal" /\ signals'[old] > signals[old])
           => proc[old] # "reaped" ]_vars

\* The error text of a spawn_command that fails for the command, after the
\* order of its checks.
C22_ErrorText(cmd) ==
    IF execution_mode = "Unsafe" /\ C7_Blocklisted(cmd) THEN UNSAFE_CMD_ERR
    ELSE IF execution_mode = "Unsafe" /\ shell_command = <<>> THEN SHELL_EMPTY_ERR
    ELSE SPAWN_ERR

\* C22: a request whose spawn_command fails gets one NotOk with the error's
\* text, put on the outcome queue in the same step, and nothing else changes:
\* the active handle, every process, the signals sent, every guard flag and
\* every Watcher are as before, and the Dispatcher is back at its select; the
\* request never has a Watcher nor a second outcome.
C22_FailedSpawnChangesNothing ==
    /\ [][ ( /\ dpc = "select"
             /\ cmd_in # <<>>
             /\ cmd_in' = Tail(cmd_in)
             /\ proc'[Head(cmd_in).id] = "none" )
              => /\ cmd_out' = Append(cmd_out, CmdNotOk(Head(cmd_in).id,
                                                        C22_ErrorText(Head(cmd_in).command)))
                 /\ active_command' = active_command
                 /\ proc' = proc
                 /\ signals' = signals
                 /\ already_killed' = already_killed
                 /\ wpc' = wpc
                 /\ dpc' = "select" ]_vars
    /\ [](\A r \in Reqs :
            (r \in handed /\ proc[r] = "none")
               => /\ Count(r) = 1
                  /\ wpc[r] = "none"
                  /\ \A i \in OutcomesFor(r) :
                        ~cmd_out[i].ok /\ cmd_out[i].text \in DispatcherTexts)

\* C22 witness: the second request was refused by the blocklist while the
\* first one's process runs: the first handle is still the active one, not
\* signalled, its flag false, and the second request has no Watcher.
C22_RefusedBesideRunning ==
    /\ active_command = 1
    /\ proc[1] = "running"
    /\ signals[1] = 0
    /\ ~already_killed[1]
    /\ cmd_out = << CmdNotOk(2, UNSAFE_CMD_ERR) >>
    /\ wpc[2] = "none"
    /\ dpc = "select"

\* C23: the requests are handed to spawn_command in the order of their
\* execute() calls: the request queue holds, oldest first, the requests after
\* those already handed, and each receive takes the oldest; the outcomes need
\* not come in that order, as the witness shows.
C23_RequestsConsumedInOrder ==
    /\ [](/\ handed = 1..Cardinality(handed)
          /\ \A i \in 1..Len(cmd_in) : cmd_in[i].id = Cardinality(handed) + i)
    /\ [][ handed' # handed => handed' = handed \cup { Cardinality(handed) + 1 } ]_vars

\* C23 witness: the outcome queue holds the outcome of the second request
\* before the outcome of the first.
C23_LaterOutcomeFirst ==
    /\ Len(cmd_out) = 2
    /\ cmd_out[1].req = 2
    /\ cmd_out[2].req = 1

\* The Dispatcher takes the oldest request of the request queue.
ReceivesRequest == dpc = "select" /\ cmd_in # <<>> /\ cmd_in' = Tail(cmd_in)

\* C24: in Unsafe mode with an empty shell prefix no process and no Watcher
\* ever exists, and each request taken gets in that step its NotOk, with the
\* blocklist's text for a blocklisted command and the empty-shell text for any
\* other, the Dispatcher staying at its select; in Isolated mode with an empty
\* shell prefix a request taken is spawned or fails with the OS's spawn
\* error, never with the empty-shell text.
C24_EmptyShellPrefix ==
    /\ []((execution_mode = "Unsafe" /\ shell_command = <<>>)
             => \A r \in Reqs : proc[r] = "none" /\ wpc[r] = "none")
    /\ [][ (ReceivesRequest /\ shell_command = <<>>)
              => IF execution_mode = "Unsafe"
                 THEN /\ cmd_out' = Append(cmd_out,
                            CmdNotOk(Head(cmd_in).id,
                                     IF C7_Blocklisted(Head(cmd_in).command)
                                     THEN UNSAFE_CMD_ERR ELSE SHELL_EMPTY_ERR))
                      /\ dpc' = "select"
                 ELSE \/ proc'[Head(cmd_in).id] = "running" /\ cmd_out' = cmd_out
                      \/ /\ cmd_out' = Append(cmd_out, CmdNotOk(Head(cmd_in).id, SPAWN_ERR))
                         /\ dpc' = "select" ]_vars

\* C24 witness: Unsafe mode, empty shell prefix: a blocklisted and another
\* request have both been refused, each with its text, and the Dispatcher is
\* at its select with no process made.
C24_BothRefusals ==
    /\ execution_mode = "Unsafe"
    /\ shell_command = <<>>
    /\ cmd_out = << CmdNotOk(1, UNSAFE_CMD_ERR), CmdNotOk(2, SHELL_EMPTY_ERR) >>
    /\ dpc = "select"
    /\ \A r \in Reqs : proc[r] = "none"

\* C25: a handle's flag is false until the handle exists and when it is
\* created, a flag that is true stays true in every step, and a flag changes
\* only in the store of kill() on that handle or in the store of its Watcher.
C25_FlagIsMonotonic ==
    /\ [](\A r \in Reqs : wpc[r] = "none" => ~already_killed[r])
    /\ [][ \A r \in Reqs :
              /\ already_killed[r] => already_killed'[r]
              /\ (wpc[r] = "none" /\ wpc'[r] # "none") => ~already_killed'[r]
              /\ already_killed'[r] # already_killed[r]
                    => \/ dpc = "kill_store" /\ old = r
                       \/ wpc[r] = "store" ]_vars

\* C25 witness: kill() has signalled the first handle's process and stored
\* its flag, and the handle's Watcher, past its check before that, has sent
\* its outcome and stored the flag too; the flag is true.
C25_FlagStoredTwice ==
    /\ signals[1] = 1
    /\ dpc \notin {"kill_signal", "kill_store"}
    /\ Count(1) = 1
    /\ wpc[1] = "done"
    /\ already_killed[1]

\* C26: once a stop signal is in the stop channel, with k execute() calls made
\* so far, no request of a later execute() call is ever handed to
\* spawn_command, in any interleaving.
C26_NoSpawnAfterStop ==
    \A k \in 0..MaxReq :
        []((stop_chan > 0 /\ submitted = k)
              => [](\A r \in Reqs : r > k => r \notin handed))

====
